---- MODULE Spec2Model ----
(***************************************************************************)
(* Model of takesnap.py: ViewportSnapshotTool.  The tool object, the two   *)
(* button handlers (execute_snapshot, update_preview), the session-end     *)
(* cleanup and the core routine generate_snapshot are modelled together    *)
(* with the part of the host (Maya cmds) they talk to: per-panel display   *)
(* flags, isolate-select state, the current selection, the current frame,  *)
(* the playblast command and the file system.                              *)
(*                                                                         *)
(* Paths and names are sequences of one-character strings, so that path    *)
(* building and the "####" substitution are computed, not assumed.         *)
(***************************************************************************)
EXTENDS Integers, Sequences, FiniteSets, TLC

(* ------------------------------ bounds --------------------------------- *)
\* number of model panels listed in the viewport tab
MaxPanels == 3
\* A session is explored as a run of snapshot-button presses or as a run of
\* preview-button presses, closed by the deletion of the window.
\* number of presses of the snapshot button in a session
MaxBatches == 1
\* number of presses of the preview button in a session
MaxPreviews == 2

(* ------------------------------ strings -------------------------------- *)
None == "None"

Digits == <<"0", "1", "2", "3", "4", "5", "6", "7", "8", "9">>

RECURSIVE NatStr(_)
NatStr(n) == IF n < 10 THEN <<Digits[n + 1]>>
             ELSE NatStr(n \div 10) \o <<Digits[(n % 10) + 1]>>

\* str(n) for a Python int
PyStr(n) == IF n < 0 THEN <<"-">> \o NatStr(-n) ELSE NatStr(n)

RECURSIVE Zeros(_)
Zeros(k) == IF k <= 0 THEN <<>> ELSE <<"0">> \o Zeros(k - 1)

\* str.zfill(width): pads after a leading sign, never truncates
ZFill(s, width) ==
    IF Len(s) >= width THEN s
    ELSE IF Len(s) > 0 /\ s[1] \in {"+", "-"}
         THEN <<s[1]>> \o Zeros(width - Len(s)) \o Tail(s)
         ELSE Zeros(width - Len(s)) \o s

\* s[i .. i+Len(pat)-1] = pat
MatchAt(s, pat, i) ==
    /\ i + Len(pat) - 1 <= Len(s)
    /\ \A k \in 1..Len(pat) : s[i + k - 1] = pat[k]

\* pat in s
Contains(s, pat) == \E i \in 1..Len(s) : MatchAt(s, pat, i)

RECURSIVE ReplaceFrom(_, _, _, _)
ReplaceFrom(s, pat, rep, i) ==
    IF i > Len(s) THEN <<>>
    ELSE IF MatchAt(s, pat, i) THEN rep \o ReplaceFrom(s, pat, rep, i + Len(pat))
    ELSE <<s[i]>> \o ReplaceFrom(s, pat, rep, i + 1)

\* str.replace(pat, rep), pat non-empty: leftmost non-overlapping occurrences
Replace(s, pat, rep) == ReplaceFrom(s, pat, rep, 1)

RECURSIVE MapChars(_, _, _)
MapChars(s, from, to) ==
    IF s = <<>> THEN <<>>
    ELSE <<IF Head(s) = from THEN to ELSE Head(s)>> \o MapChars(Tail(s), from, to)

PLACEHOLDER == <<"#", "#", "#", "#">>
FRAME_PADDING == 4
default_extension == <<".", "j", "p", "g">>

(* --------------------------- display flags ----------------------------- *)
flags_to_query == <<
    "allObjects", "polymeshes", "nurbsSurfaces", "nurbsCurves", "subdivSurfaces",
    "planes", "lights", "cameras", "joints", "ikHandles", "deformers",
    "dynamicConstraints", "locators", "dimensions", "handles", "pivots",
    "textures", "strokes", "fluids", "follicles", "hairSystems",
    "nCloths", "nParticles", "nRigids",
    "displayAppearance", "displayTextures", "displayLights", "shadows",
    "wireframeOnShaded", "xray", "jointXray",
    "grid", "hud", "manipulators" >>

Flags == {flags_to_query[i] : i \in 1..Len(flags_to_query)}

\* the three groups of the queried flags, in the order of the list
CategoryFlags == {flags_to_query[i] : i \in 1..24}
ShadingFlags == {flags_to_query[i] : i \in 25..31}
OrnamentFlags == {flags_to_query[i] : i \in 32..34}

SettingsOf(keys, v) == [f \in keys |-> v]

\* variant of settings_to_disable: imagePlane, a flag that is not queried, is
\* switched off too
settings_to_disable_Unqueried ==
    SettingsOf({"allObjects", "polymeshes", "nurbsSurfaces", "nurbsCurves",
                "subdivSurfaces", "planes", "lights", "cameras",
                "joints", "ikHandles", "deformers", "dynamicConstraints",
                "locators", "manipulators", "dimensions", "handles",
                "pivots", "textures", "strokes", "fluids", "follicles",
                "hairSystems", "nCloths", "nParticles", "nRigids",
                "imagePlane"}, FALSE)

\* variant of settings_to_disable: the joint and nCloth entries are missing
settings_to_disable_Short ==
    SettingsOf({"allObjects", "polymeshes", "nurbsSurfaces", "nurbsCurves",
                "subdivSurfaces", "planes", "lights", "cameras",
                "ikHandles", "deformers", "dynamicConstraints",
                "locators", "manipulators", "dimensions", "handles",
                "pivots", "textures", "strokes", "fluids", "follicles",
                "hairSystems", "nParticles", "nRigids"}, FALSE)

settings_to_disable ==
    SettingsOf({"allObjects", "polymeshes", "nurbsSurfaces", "nurbsCurves",
                "subdivSurfaces", "planes", "lights", "cameras",
                "joints", "ikHandles", "deformers", "dynamicConstraints",
                "locators", "manipulators", "dimensions", "handles",
                "pivots", "textures", "strokes", "fluids", "follicles",
                "hairSystems", "nCloths", "nParticles", "nRigids"}, FALSE)

FilterKeys == {"all", "mesh", "joint", "mesh_joint", "nurbs", "other"}
ModeKeys == {"scene_objects", "viewport_all", "selected_only"}

settings_to_enable(display_filter) ==
    CASE display_filter = "all" -> SettingsOf({"allObjects"}, TRUE)
      [] display_filter = "mesh" -> SettingsOf({"polymeshes", "subdivSurfaces"}, TRUE)
      [] display_filter = "joint" -> SettingsOf({"joints"}, TRUE)
      [] display_filter = "mesh_joint" ->
             SettingsOf({"polymeshes", "subdivSurfaces", "joints"}, TRUE)
      [] display_filter = "nurbs" -> SettingsOf({"nurbsCurves", "nurbsSurfaces"}, TRUE)
      [] OTHER -> SettingsOf({"allObjects"}, TRUE)

\* cmds.modelEditor(panel, edit=True, **settings): the host sets every named
\* flag, also one whose query it does not answer
ModelEditorEdit(fl, settings) ==
    [f \in DOMAIN fl |-> IF f \in DOMAIN settings THEN settings[f] ELSE fl[f]]

(* ------------------------------- host ---------------------------------- *)
Panels == 1..MaxPanels

\* the panel's name, as kept in the checkbox annotation
PanelName(p) == <<"m">> \o NatStr(p)

NonePath == <<>>

\* what a panel of the host can look like when the tool is opened: whether it
\* still exists, which flags are on, which flag queries raise RuntimeError,
\* which return None, whether isolateSelect works on it, its isolate state,
\* and its camera
PanelKinds == <<
    [exists |-> TRUE,
     on |-> (CategoryFlags \ {"allObjects"}) \cup {"displayAppearance", "grid", "hud", "manipulators"},
     unreadable |-> {}, noneq |-> {},
     isoAvail |-> TRUE, iso |-> FALSE, camera |-> <<"p">>],
    [exists |-> TRUE,
     on |-> {"allObjects", "joints", "locators", "nCloths", "xray", "grid", "manipulators"},
     unreadable |-> {"joints", "nCloths", "hud"}, noneq |-> {"locators", "shadows"},
     isoAvail |-> TRUE, iso |-> TRUE, camera |-> <<"|", "g", "|", "c", ":", "s">>],
    [exists |-> TRUE,
     on |-> {"polymeshes", "nurbsCurves", "displayTextures", "hud"},
     unreadable |-> {}, noneq |-> {},
     isoAvail |-> FALSE, iso |-> FALSE, camera |-> <<"p">>],
    [exists |-> FALSE,
     on |-> {}, unreadable |-> Flags, noneq |-> {},
     isoAvail |-> FALSE, iso |-> FALSE, camera |-> <<>>],
    [exists |-> TRUE,
     on |-> Flags, unreadable |-> {}, noneq |-> {},
     isoAvail |-> TRUE, iso |-> TRUE, camera |-> <<"t">>] >>

\* the hosts explored: the kinds dealt to the panels in turn, from each start
Scenes == {[p \in Panels |-> PanelKinds[((p + k) % Len(PanelKinds)) + 1]] :
             k \in 1..Len(PanelKinds)}

\* the host either reports and writes frame-numbered image names or uses the
\* requested name as it is; the frame matters to the first kind only
HostStyles == {[numbered |-> FALSE, frame |-> 7],
               [numbered |-> TRUE, frame |-> 7],
               [numbered |-> TRUE, frame |-> 12345]}

\* a return value of cmds.playblast: None, a string or a list of strings (val
\* holds the string of a "str" value as its only element)
NoRaw == [kind |-> "none", val |-> <<>>]
StrRaw(path) == [kind |-> "str", val |-> <<path>>]
ListRaw(paths) == [kind |-> "list", val |-> paths]

\* the path with the frame placeholder the host reports for a requested file
HostPlaceholderPath(fp) == fp \o <<".">> \o PLACEHOLDER \o default_extension

\* the image file the host writes for that placeholder path at a frame
HostFrameFile(fp, fr) ==
    fp \o <<".">> \o ZFill(PyStr(fr), FRAME_PADDING) \o default_extension

\* the results of cmds.playblast for one still: it raises, or it returns one of
\* the shapes of its return value and has written nothing, an empty file or an
\* image, at the requested path or at the frame-numbered one
HostOutcomes(fp, fr, numbered) ==
    {[raises |-> TRUE, raw |-> NoRaw, wrote |-> NonePath, size |-> 0]}
    \cup {[raises |-> FALSE, raw |-> r, wrote |-> w[1], size |-> w[2]] :
            r \in IF numbered
                  THEN {StrRaw(HostPlaceholderPath(fp)), ListRaw(<<HostPlaceholderPath(fp)>>)}
                  ELSE {NoRaw, StrRaw(fp), StrRaw(<<>>), ListRaw(<<>>), ListRaw(<<fp>>)},
            w \in IF numbered
                  THEN {<<NonePath, 0>>, <<HostFrameFile(fp, fr), 0>>,
                        <<HostFrameFile(fp, fr), 1>>}
                  ELSE {<<NonePath, 0>>, <<fp, 0>>, <<fp, 1>>}}

\* file system: path -> size in bytes, for the files that exist
NoFiles == [q \in {} |-> 0]
FsExists(f, path) == path \in DOMAIN f
FsWrite(f, path, size) ==
    [q \in (DOMAIN f) \cup {path} |-> IF q = path THEN size ELSE f[q]]
FsRemove(f, path) == [q \in (DOMAIN f) \ {path} |-> f[q]]

\* os.path.join(folder, name) for a relative name
PathJoin(folder, name) ==
    IF folder /= <<>> /\ folder[Len(folder)] = "/" THEN folder \o name
    ELSE folder \o <<"/">> \o name

(* ------------------------------ state ---------------------------------- *)
VARIABLES
    panelInfo,          \* host: panel -> its kind (fixed during a session)
    selection,          \* host: TRUE iff cmds.ls(selection=True) is non-empty
    frame,              \* host: cmds.currentTime
    numbered,           \* host: playblast uses frame-numbered image names
    flags,              \* host: panel -> (flag -> value)
    isoState,           \* host: panel -> isolate-select state
    fs,                 \* file system
    temp_preview_file,  \* self.temp_preview_file (NonePath for None)
    preview_image,      \* image shown by self.preview_image_control
    tempCount,          \* number of names handed out by tempfile.mkstemp
    handler,            \* "idle", "execute", "preview" or "closed"
    batches, previews,  \* button presses so far
    selected_panels, idx, success_files, error_panels,
    filter_key, mode_key, folder_path, filename_base,
    width, height,      \* the size execute_snapshot read from the two fields
    pc,                 \* position inside generate_snapshot ("idle": no call)
    panel, filepath, is_preview,
    original_settings, isolation_state, isolate_available,
    show_ornaments, isolate_activated,
    actual_filepath_raw, final_filepath,
    exc,                \* exception travelling to the caller, or None
    pre,                \* panel -> display state when generate_snapshot was last entered for it
    log                 \* host calls of the running (or last) handler, in order

hostVars == <<panelInfo, selection, frame, numbered>>
dispVars == <<flags, isoState>>
toolVars == <<temp_preview_file, preview_image, tempCount>>
drvVars == <<handler, batches, previews, selected_panels, idx, success_files,
             error_panels, filter_key, mode_key, folder_path, filename_base,
             width, height>>
argVars == <<panel, filepath, is_preview>>
locVars == <<original_settings, isolation_state, isolate_available,
             show_ornaments, isolate_activated, actual_filepath_raw, final_filepath>>
vars == <<hostVars, dispVars, fs, toolVars, drvVars, pc, argVars, locVars, exc, pre, log>>

NoSettings == [f \in {} |-> <<>>]

DisplayOf(fl, iso, p) == [flags |-> fl[p], iso |-> iso[p]]

Init ==
    /\ panelInfo \in Scenes
    /\ selection \in BOOLEAN
    /\ \E h \in HostStyles : frame = h.frame /\ numbered = h.numbered
    /\ flags = [p \in Panels |-> [f \in Flags |-> f \in panelInfo[p].on]]
    /\ isoState = [p \in Panels |-> panelInfo[p].iso]
    /\ fs = NoFiles
    /\ temp_preview_file = NonePath
    /\ preview_image = <<>>
    /\ tempCount = 0
    /\ handler = "idle"
    /\ batches = 0
    /\ previews = 0
    /\ selected_panels = <<>>
    /\ idx = 1
    /\ success_files = <<>>
    /\ error_panels = <<>>
    /\ filter_key = "all"
    /\ mode_key = "scene_objects"
    /\ folder_path = <<>>
    /\ filename_base = <<>>
    /\ width = 0
    /\ height = 0
    /\ pc = "idle"
    /\ panel = 1
    /\ filepath = NonePath
    /\ is_preview = FALSE
    /\ original_settings = NoSettings
    /\ isolation_state = FALSE
    /\ isolate_available = FALSE
    /\ show_ornaments = TRUE
    /\ isolate_activated = FALSE
    /\ actual_filepath_raw = NoRaw
    /\ final_filepath = NonePath
    /\ exc = None
    /\ pre = [p \in Panels |-> DisplayOf(flags, isoState, p)]
    /\ log = <<>>

(* ------------------------- generate_snapshot --------------------------- *)
Logged(events) == log \o [i \in 1..Len(events) |-> <<events[i], panel>>]

\* the caller's side of a call: arguments bound, locals fresh, position at the
\* first statement
EnterGenerate(p, fp, preview) ==
    /\ pc' = "check"
    /\ panel' = p
    /\ filepath' = fp
    /\ is_preview' = preview
    /\ original_settings' = NoSettings
    /\ isolation_state' = FALSE
    /\ isolate_available' = FALSE
    /\ show_ornaments' = TRUE
    /\ isolate_activated' = FALSE
    /\ actual_filepath_raw' = NoRaw
    /\ final_filepath' = NonePath
    /\ exc' = None
    /\ pre' = [pre EXCEPT ![p] = DisplayOf(flags, isoState, p)]

\* variant of GsCheckPanel: the call goes on to the display mode without
\* saving the settings
GsCheckPanel_SkipSave ==
    /\ pc = "check"
    /\ log' = Logged(<<"panelExists">>)
    /\ IF panelInfo[panel].exists
       THEN pc' = "mode" /\ exc' = exc
       ELSE pc' = "return" /\ exc' = "ValueError"
    /\ UNCHANGED <<hostVars, dispVars, fs, toolVars, drvVars, argVars, locVars, pre>>

\* variant of GsCheckPanel: the existence test is left out
GsCheckPanel_NoCheck ==
    /\ pc = "check"
    /\ log' = Logged(<<"panelExists">>)
    /\ pc' = "save"
    /\ UNCHANGED <<hostVars, dispVars, fs, toolVars, drvVars, argVars, locVars, exc, pre>>

\* cmds.modelPanel(panel, exists=True); a missing panel raises ValueError
\* before the try block is entered
GsCheckPanel ==
    /\ pc = "check"
    /\ log' = Logged(<<"panelExists">>)
    /\ IF panelInfo[panel].exists
       THEN pc' = "save" /\ exc' = exc
       ELSE pc' = "return" /\ exc' = "ValueError"
    /\ UNCHANGED <<hostVars, dispVars, fs, toolVars, drvVars, argVars, locVars, pre>>

\* the dictionary the query loop builds: a flag whose query raises RuntimeError
\* is left out, a query that returns None is stored as None (<<>>)
QuerySettings(info, fl) ==
    [f \in Flags \ info.unreadable |-> IF f \in info.noneq THEN <<>> ELSE <<fl[f]>>]

\* 1. save the original settings
GsSave ==
    /\ pc = "save"
    /\ isolate_available' = panelInfo[panel].isoAvail
    /\ original_settings' = QuerySettings(panelInfo[panel], flags[panel])
    /\ isolation_state' = IF panelInfo[panel].isoAvail THEN isoState[panel] ELSE FALSE
    /\ log' = Logged(IF panelInfo[panel].isoAvail
                     THEN <<"isolateProbe", "getFlags", "isolateQuery">>
                     ELSE <<"isolateProbe", "getFlags">>)
    /\ pc' = "mode"
    /\ UNCHANGED <<hostVars, dispVars, fs, toolVars, drvVars, argVars,
                   show_ornaments, isolate_activated, actual_filepath_raw,
                   final_filepath, exc, pre>>

\* variant of ShowOrnaments: only scene_objects hides the ornaments
ShowOrnaments_OnlySceneHides(display_mode) == display_mode /= "scene_objects"

ShowOrnaments(display_mode) ==
    CASE display_mode = "scene_objects" -> FALSE
      [] display_mode = "viewport_all" -> TRUE
      [] display_mode = "selected_only" -> FALSE
      [] OTHER -> TRUE

\* variant of WantsIsolate: the display mode is not looked at
WantsIsolate_AnyMode(display_mode, sel, available) == sel /\ available

\* variant of WantsIsolate: the selection is not looked at
WantsIsolate_NoSelectionTest(display_mode, sel, available) ==
    display_mode = "selected_only" /\ available

\* isolate-select is asked for in selected_only mode with a selection on a
\* panel that supports it
WantsIsolate(display_mode, sel, available) ==
    display_mode = "selected_only" /\ sel /\ available

\* 2. display mode: ornaments and isolate-select (the activation may raise,
\* which is logged and leaves isolate_activated False)
GsMode ==
    /\ pc = "mode"
    /\ show_ornaments' = ShowOrnaments(mode_key)
    /\ IF WantsIsolate(mode_key, selection, isolate_available)
       THEN /\ log' = Logged(<<"ls", "isolateSet">>)
            /\ \/ /\ isoState' = [isoState EXCEPT ![panel] = TRUE]
                  /\ isolate_activated' = TRUE
               \/ /\ isoState' = isoState
                  /\ isolate_activated' = FALSE
       ELSE /\ log' = IF mode_key = "selected_only" THEN Logged(<<"ls">>) ELSE log
            /\ isoState' = isoState
            /\ isolate_activated' = FALSE
    /\ pc' = "disable"
    /\ UNCHANGED <<hostVars, flags, fs, toolVars, drvVars, argVars,
                   original_settings, isolation_state, isolate_available,
                   actual_filepath_raw, final_filepath, exc, pre>>

\* 2. object filter, first call: every category flag off
GsDisable ==
    /\ pc = "disable"
    /\ flags' = [flags EXCEPT ![panel] = ModelEditorEdit(@, settings_to_disable)]
    /\ log' = Logged(<<"setFlags">>)
    /\ pc' = "enable"
    /\ UNCHANGED <<hostVars, isoState, fs, toolVars, drvVars, argVars, locVars, exc, pre>>

\* 2. object filter, second call: the flags of the filter key on
GsEnable ==
    /\ pc = "enable"
    /\ flags' = [flags EXCEPT ![panel] = ModelEditorEdit(@, settings_to_enable(filter_key))]
    /\ log' = Logged(<<"setFlags">>)
    /\ pc' = "playblast"
    /\ UNCHANGED <<hostVars, isoState, fs, toolVars, drvVars, argVars, locVars, exc, pre>>

\* variant of GsPlayblast: the exception leaves generate_snapshot at once, as
\* if the capture were not inside try/finally
GsPlayblast_NoFinally ==
    /\ pc = "playblast"
    /\ \E o \in HostOutcomes(filepath, frame, numbered) :
          IF o.raises
          THEN /\ exc' = "PlayblastError"
               /\ pc' = "return"
               /\ log' = Logged(<<"currentTime", "playblast", "raised">>)
               /\ UNCHANGED <<fs, actual_filepath_raw>>
          ELSE /\ exc' = exc
               /\ pc' = "resolve"
               /\ log' = Logged(<<"currentTime", "playblast">>)
               /\ actual_filepath_raw' = o.raw
               /\ fs' = IF o.wrote = NonePath THEN fs ELSE FsWrite(fs, o.wrote, o.size)
    /\ UNCHANGED <<hostVars, dispVars, toolVars, drvVars, argVars,
                   original_settings, isolation_state, isolate_available,
                   show_ornaments, isolate_activated, final_filepath, pre>>

\* 3. cmds.playblast of the current frame; an exception goes through the
\* except clause, which re-raises it, to the finally block
GsPlayblast ==
    /\ pc = "playblast"
    /\ \E o \in HostOutcomes(filepath, frame, numbered) :
          IF o.raises
          THEN /\ exc' = "PlayblastError"
               /\ pc' = "restore"
               /\ log' = Logged(<<"currentTime", "playblast", "raised">>)
               /\ UNCHANGED <<fs, actual_filepath_raw>>
          ELSE /\ exc' = exc
               /\ pc' = "resolve"
               /\ log' = Logged(<<"currentTime", "playblast">>)
               /\ actual_filepath_raw' = o.raw
               /\ fs' = IF o.wrote = NonePath THEN fs ELSE FsWrite(fs, o.wrote, o.size)
    /\ UNCHANGED <<hostVars, dispVars, toolVars, drvVars, argVars,
                   original_settings, isolation_state, isolate_available,
                   show_ornaments, isolate_activated, final_filepath, pre>>

\* the path taken from the return value: first element of a non-empty list, a
\* non-empty string itself, otherwise the requested path
PathToCheck(raw, requested) ==
    IF raw.kind = "list" /\ raw.val /= <<>> THEN raw.val[1]
    ELSE IF raw.kind = "str" /\ raw.val[1] /= <<>> THEN raw.val[1]
    ELSE requested

\* "####" replaced by the frame number, zero-filled to 4 digits
ResolvePath(path, start_frame) ==
    IF Contains(path, PLACEHOLDER)
    THEN Replace(path, PLACEHOLDER, ZFill(PyStr(start_frame), FRAME_PADDING))
    ELSE path

FinalFilepath(raw, requested, start_frame) ==
    ResolvePath(PathToCheck(raw, requested), start_frame)

\* path handling and file check after a playblast that returned
GsResolve ==
    /\ pc = "resolve"
    /\ LET final == FinalFilepath(actual_filepath_raw, filepath, frame) IN
       /\ final_filepath' = final
       /\ IF final /= NonePath /\ FsExists(fs, final)
          THEN IF is_preview
               THEN /\ fs' = IF filepath /= final /\ FsExists(fs, filepath)
                             THEN FsRemove(fs, filepath) ELSE fs
                    /\ temp_preview_file' = final
               ELSE UNCHANGED <<fs, temp_preview_file>>
          ELSE /\ fs' = fs
               /\ temp_preview_file' = IF is_preview THEN NonePath ELSE temp_preview_file
    /\ actual_filepath_raw' = NoRaw
    /\ pc' = "restore"
    /\ UNCHANGED <<hostVars, dispVars, preview_image, tempCount, drvVars, argVars,
                   original_settings, isolation_state, isolate_available,
                   show_ornaments, isolate_activated, exc, pre, log>>

\* the settings the restore re-applies: the saved ones that are not None
ValidSettings(settings) ==
    [f \in {g \in DOMAIN settings : settings[g] /= <<>>} |-> settings[f][1]]

\* the finally block's guard of the isolate-select restore
RestoresIsolate(activated, available) == activated /\ available

\* 4. finally: restore the display settings
GsRestore ==
    /\ pc = "restore"
    /\ LET isoCalls == IF ~RestoresIsolate(isolate_activated, isolate_available) THEN <<>>
                       ELSE IF isoState[panel] /= isolation_state
                            THEN <<"isolateQuery", "isolateSet">>
                            ELSE <<"isolateQuery">>
           flagCalls == IF ValidSettings(original_settings) /= NoSettings
                        THEN <<"restoreFlags">> ELSE <<>>
       IN log' = Logged(<<"finally">> \o isoCalls \o flagCalls)
    /\ isoState' = IF RestoresIsolate(isolate_activated, isolate_available)
                      /\ isoState[panel] /= isolation_state
                   THEN [isoState EXCEPT ![panel] = isolation_state]
                   ELSE isoState
    /\ flags' = [flags EXCEPT ![panel] = ModelEditorEdit(@, ValidSettings(original_settings))]
    /\ pc' = "return"
    /\ UNCHANGED <<hostVars, fs, toolVars, drvVars, argVars, locVars, exc, pre>>

\* the frame of generate_snapshot is dropped when the caller takes over again
LeaveGenerate ==
    /\ pc' = "idle"
    /\ exc' = None
    /\ original_settings' = NoSettings
    /\ isolation_state' = FALSE
    /\ isolate_available' = FALSE
    /\ show_ornaments' = TRUE
    /\ isolate_activated' = FALSE
    /\ actual_filepath_raw' = NoRaw
    /\ final_filepath' = NonePath

(* --------------------------- execute_snapshot -------------------------- *)
\* the checked boxes, in the order of the checkbox list
SortedSeq(S) ==
    CHOOSE s \in [1..Cardinality(S) -> S] : \A i, j \in 1..Cardinality(S) : i < j => s[i] < s[j]

Selections == {SortedSeq(S) : S \in SUBSET Panels}

FolderInputs == {<<>>, <<"d">>}
BaseInputs == {<<>>, <<"s">>}
WidthInputs == {0, 1920}
HeightInputs == {0, 1080}

\* variant of ConfigValid: the size is not tested
ConfigValid_NoSizeTest(folder, base, w, h, sel) ==
    /\ folder /= <<>> /\ base /= <<>>
    /\ sel /= <<>>

\* the validation at the top of execute_snapshot
ConfigValid(folder, base, w, h, sel) ==
    /\ folder /= <<>> /\ base /= <<>>
    /\ w > 0 /\ h > 0
    /\ sel /= <<>>

\* button "take snapshots" with a configuration the validation rejects, or
\* with a missing folder that is not created (dirReady false): the values of
\* the fields have been read and the handler returns.  success_files and
\* error_panels are the lists of the latest run.
ExecuteRejected ==
    /\ handler = "idle"
    /\ batches < MaxBatches
    /\ previews = 0
    /\ \E folder \in FolderInputs, base \in BaseInputs, w \in WidthInputs,
          h \in HeightInputs, sel \in Selections, dirReady \in BOOLEAN :
          /\ ~(ConfigValid(folder, base, w, h, sel) /\ dirReady)
          /\ folder_path' = folder
          /\ filename_base' = base
          /\ width' = w
          /\ height' = h
          /\ selected_panels' = sel
    /\ batches' = batches + 1
    /\ log' = <<>>
    /\ success_files' = <<>>
    /\ error_panels' = <<>>
    /\ UNCHANGED <<hostVars, dispVars, fs, toolVars, handler, previews,
                   idx, filter_key, mode_key, pc, argVars, locVars, exc, pre>>

\* button "take snapshots" with a valid configuration: the loop over the
\* selected panels is entered
ExecuteSnapshot ==
    /\ handler = "idle"
    /\ batches < MaxBatches
    /\ previews = 0
    /\ batches' = batches + 1
    /\ log' = <<>>
    /\ success_files' = <<>>
    /\ error_panels' = <<>>
    /\ \E folder \in FolderInputs, base \in BaseInputs, w \in WidthInputs,
          h \in HeightInputs, fk \in FilterKeys, mk \in ModeKeys,
          sel \in Selections :
          /\ ConfigValid(folder, base, w, h, sel)
          /\ width' = w
          /\ height' = h
          /\ handler' = "execute"
          /\ selected_panels' = sel
          /\ idx' = 1
          /\ filter_key' = fk
          /\ mode_key' = mk
          /\ folder_path' = folder
          /\ filename_base' = base
    /\ UNCHANGED <<hostVars, dispVars, fs, toolVars, previews, pc, argVars, locVars,
                   exc, pre>>

\* the suffix of the file name: the panel's camera with "|" and ":" replaced,
\* or the panel name when the camera query raises
FilenameSuffix(info, p) ==
    IF info.exists
    THEN <<"_">> \o MapChars(MapChars(info.camera, "|", "_"), ":", "_")
    ELSE <<"_">> \o PanelName(p)

PanelFilepath(folder, base, info, p) ==
    PathJoin(folder, base \o FilenameSuffix(info, p) \o default_extension)

\* loop body up to the call of generate_snapshot
ExecCall ==
    /\ handler = "execute"
    /\ pc = "idle"
    /\ idx <= Len(selected_panels)
    /\ LET p == selected_panels[idx] IN
       /\ log' = Append(log, <<"camera", p>>)
       /\ EnterGenerate(p, PanelFilepath(folder_path, filename_base, panelInfo[p], p), FALSE)
    /\ UNCHANGED <<hostVars, dispVars, fs, toolVars, drvVars>>

\* loop body after the call: the requested path goes to success_files, or the
\* except clause puts the panel on error_panels
ExecReturn ==
    /\ handler = "execute"
    /\ pc = "return"
    /\ IF exc = None
       THEN /\ success_files' = Append(success_files, filepath)
            /\ error_panels' = error_panels
       ELSE /\ success_files' = success_files
            /\ error_panels' = Append(error_panels, panel)
    /\ idx' = idx + 1
    /\ LeaveGenerate
    /\ UNCHANGED <<hostVars, dispVars, fs, toolVars, handler, batches, previews,
                   selected_panels, filter_key, mode_key, folder_path, filename_base,
                   width, height, argVars, pre, log>>

\* end of the loop: the summary is shown
ExecFinish ==
    /\ handler = "execute"
    /\ pc = "idle"
    /\ idx > Len(selected_panels)
    /\ handler' = "idle"
    /\ UNCHANGED <<hostVars, dispVars, fs, toolVars, batches, previews, selected_panels,
                   idx, success_files, error_panels, filter_key, mode_key, folder_path,
                   filename_base, width, height, pc, argVars, locVars, exc, pre, log>>

(* ------------------------ preview and clean-up ------------------------- *)
\* the name tempfile.mkstemp(suffix=".jpg", prefix="maya_preview_") hands out
TempName(n) == <<"t">> \o NatStr(n) \o default_extension

\* cleanup_temp_file: the file system after it (the tracked path becomes None)
CleanupFs(f, tracked) ==
    IF tracked /= NonePath /\ FsExists(f, tracked) THEN FsRemove(f, tracked) ELSE f

\* update_preview returns early when no panel is checked, or in selected_only
\* mode without a selection
PreviewAborts(sel, mk, hasSelection) ==
    sel = <<>> \/ (mk = "selected_only" /\ ~hasSelection)

\* button "update preview", up to the call of generate_snapshot
UpdatePreview ==
    /\ handler = "idle"
    /\ previews < MaxPreviews
    /\ batches = 0
    /\ previews' = previews + 1
    /\ \E sel \in Selections, fk \in FilterKeys, mk \in ModeKeys :
          IF PreviewAborts(sel, mk, selection)
          THEN /\ preview_image' = <<>>
               /\ log' = IF sel /= <<>> THEN <<<<"ls", sel[1]>>>> ELSE <<>>
               /\ filter_key' = IF sel /= <<>> THEN fk ELSE filter_key
               /\ mode_key' = IF sel /= <<>> THEN mk ELSE mode_key
               /\ UNCHANGED <<fs, temp_preview_file, tempCount, handler,
                              pc, argVars, locVars, exc, pre>>
          ELSE /\ fs' = FsWrite(CleanupFs(fs, temp_preview_file), TempName(tempCount + 1), 0)
               /\ tempCount' = tempCount + 1
               /\ temp_preview_file' = TempName(tempCount + 1)
               /\ handler' = "preview"
               /\ filter_key' = fk
               /\ mode_key' = mk
               /\ log' = IF mk = "selected_only" THEN <<<<"ls", sel[1]>>>> ELSE <<>>
               /\ EnterGenerate(sel[1], TempName(tempCount + 1), TRUE)
               /\ preview_image' = preview_image
    /\ UNCHANGED <<hostVars, dispVars, batches, selected_panels, idx, success_files,
                   error_panels, folder_path, filename_base, width, height>>

\* the image update_preview shows after the call
PreviewImage(success, tracked, f) ==
    IF success /\ tracked /= NonePath /\ FsExists(f, tracked) /\ f[tracked] > 0
    THEN tracked ELSE <<>>

\* update_preview after the call: an exception of generate_snapshot is caught
PreviewReturn ==
    /\ handler = "preview"
    /\ pc = "return"
    /\ preview_image' = PreviewImage(exc = None, temp_preview_file, fs)
    /\ handler' = "idle"
    /\ LeaveGenerate
    /\ UNCHANGED <<hostVars, dispVars, fs, temp_preview_file, tempCount, batches,
                   previews, selected_panels, idx, success_files, error_panels,
                   filter_key, mode_key, folder_path, filename_base, width, height,
                   argVars, pre, log>>

\* the window is deleted: the scriptJob runs cleanup_temp_file
CloseWindow ==
    /\ handler = "idle"
    /\ handler' = "closed"
    /\ fs' = CleanupFs(fs, temp_preview_file)
    /\ temp_preview_file' = NonePath
    /\ UNCHANGED <<hostVars, dispVars, preview_image, tempCount, batches, previews,
                   selected_panels, idx, success_files, error_panels, filter_key,
                   mode_key, folder_path, filename_base, width, height, pc, argVars,
                   locVars, exc, pre, log>>

Next ==
    \/ ExecuteRejected
    \/ ExecuteSnapshot
    \/ ExecCall
    \/ GsCheckPanel
    \/ GsSave
    \/ GsMode
    \/ GsDisable
    \/ GsEnable
    \/ GsPlayblast
    \/ GsResolve
    \/ GsRestore
    \/ ExecReturn
    \/ ExecFinish
    \/ UpdatePreview
    \/ PreviewReturn
    \/ CloseWindow

Spec == Init /\ [][Next]_vars

(* ----------------------- the path of the output ------------------------ *)
\* The path resolution of generate_snapshot on its own: the tool stands right
\* after a cmds.playblast that returned during the capture of one panel of a
\* batch, and the return value, the current frame and the written file are
\* drawn from the sets below.
ShotPath == <<"s", "h", "o", "t", ".">> \o PLACEHOLDER \o default_extension
PlainPath == <<"s", "h", "o", "t">> \o default_extension
TwoPath == <<"a">> \o PLACEHOLDER \o <<"b">> \o PLACEHOLDER
FivePath == PLACEHOLDER \o <<"#">>

ReturnedPaths == {ShotPath, PlainPath, TwoPath, FivePath}

\* return values of cmds.playblast: None, "", [], a string, a list
RawInputs ==
    {NoRaw, StrRaw(<<>>), ListRaw(<<>>)}
    \cup {StrRaw(q) : q \in ReturnedPaths}
    \cup {ListRaw(<<q>>) : q \in ReturnedPaths}
    \cup {ListRaw(<<q, PlainPath>>) : q \in ReturnedPaths}

\* values of int(cmds.currentTime(query=True))
FrameInputs == {-7, 0, 7, 123, 9999, 12345}

\* the flags of a panel after the two filter edits
MutatedFlags(fl, key) ==
    ModelEditorEdit(ModelEditorEdit(fl, settings_to_disable), settings_to_enable(key))

\* the host calls of a batch up to the return of the first panel's playblast
\* in scene_objects mode
CallsUntilCapture(p, isoAvail) ==
    LET ev == <<"camera", "panelExists">>
              \o (IF isoAvail THEN <<"isolateProbe", "getFlags", "isolateQuery">>
                  ELSE <<"isolateProbe", "getFlags">>)
              \o <<"setFlags", "setFlags", "currentTime", "playblast">>
    IN [i \in 1..Len(ev) |-> <<ev[i], p>>]

InitPath ==
    /\ panelInfo \in {sc \in Scenes : sc[1].exists}
    /\ selection = FALSE
    /\ frame \in FrameInputs
    /\ numbered \in BOOLEAN
    /\ pre = [p \in Panels |-> [flags |-> [f \in Flags |-> f \in panelInfo[p].on],
                                iso |-> panelInfo[p].iso]]
    /\ flags = [p \in Panels |-> IF p = 1 THEN MutatedFlags(pre[p].flags, "all")
                                 ELSE pre[p].flags]
    /\ isoState = [p \in Panels |-> panelInfo[p].iso]
    /\ filepath = PanelFilepath(<<"d">>, <<"s">>, panelInfo[1], 1)
    /\ fs \in {NoFiles, FsWrite(NoFiles, filepath, 1)}
    /\ temp_preview_file = NonePath
    /\ preview_image = <<>>
    /\ tempCount = 0
    /\ handler = "execute"
    /\ batches = 1
    /\ previews = 0
    /\ selected_panels = <<1>>
    /\ idx = 1
    /\ success_files = <<>>
    /\ error_panels = <<>>
    /\ filter_key = "all"
    /\ mode_key = "scene_objects"
    /\ folder_path = <<"d">>
    /\ filename_base = <<"s">>
    /\ width = 1920
    /\ height = 1080
    /\ pc = "resolve"
    /\ panel = 1
    /\ is_preview = FALSE
    /\ original_settings = QuerySettings(panelInfo[1], pre[1].flags)
    /\ isolation_state = IF panelInfo[1].isoAvail THEN panelInfo[1].iso ELSE FALSE
    /\ isolate_available = panelInfo[1].isoAvail
    /\ show_ornaments = FALSE
    /\ isolate_activated = FALSE
    /\ actual_filepath_raw \in RawInputs
    /\ final_filepath = NonePath
    /\ exc = None
    /\ log = CallsUntilCapture(1, panelInfo[1].isoAvail)

NextPath ==
    \/ GsResolve
    \/ GsRestore
    \/ ExecReturn
    \/ ExecFinish

SpecPath == InitPath /\ [][NextPath]_vars

(* ======================================================================= *)
(*                               properties                                *)
(* ======================================================================= *)
Range(seq) == {seq[i] : i \in 1..Len(seq)}

\* the events logged for panel p by the running (or last) handler
EventsOf(p) == {log[i][1] : i \in {j \in 1..Len(log) : log[j][2] = p}}

\* event e1 of panel p is logged before its event e2
Before(e1, e2, p) ==
    \E i, j \in 1..Len(log) : i < j /\ log[i] = <<e1, p>> /\ log[j] = <<e2, p>>

Raised(p) == "raised" \in EventsOf(p)

\* C1: when generate_snapshot finishes for an existing panel, every display
\* flag of the panel (also a flag whose query failed when the settings were
\* saved) and its isolate-select state have the values they had just before
\* the call, whatever the filter, the mode and the result of the capture.
C1_DisplayStateRoundTrip ==
    (pc = "return" /\ panelInfo[panel].exists) =>
        /\ flags[panel] = pre[panel].flags
        /\ isoState[panel] = pre[panel].iso

\* C2: when the capture command raises, the finally block restores the panel
\* before the exception leaves generate_snapshot: the exception is still
\* pending while the restore runs and when the call returns, the restore is
\* logged after the raise, and a panel the batch driver has put on
\* error_panels after a raise was restored before that.
C2_RestoreBeforePropagation ==
    /\ (pc = "restore" /\ Raised(panel)) =>
           (exc = "PlayblastError" /\ "finally" \notin EventsOf(panel))
    /\ (pc = "return" /\ Raised(panel)) =>
           (exc = "PlayblastError" /\ Before("raised", "finally", panel))
    /\ \A p \in Panels :
           (batches > 0 /\ Raised(p) /\ (pc = "idle" \/ panel /= p)) =>
               (p \in Range(error_panels) /\ Before("raised", "finally", p))

\* a batch has recorded a panel as failed after its capture raised
C2_Witness ==
    /\ handler = "execute"
    /\ pc = "idle"
    /\ error_panels /= <<>>
    /\ Raised(error_panels[1])
    /\ flags[error_panels[1]] = pre[error_panels[1]].flags

\* the loop of execute_snapshot has gone through the whole list
LoopDone == handler = "execute" /\ pc = "idle" /\ idx > Len(selected_panels)

IsEntry(e) == e[1] = "panelExists"

\* the panels generate_snapshot was entered for, in order
EnteredPanels ==
    LET entries == SelectSeq(log, IsEntry) IN [i \in 1..Len(entries) |-> entries[i][2]]

\* C3: a batch goes through every selected panel exactly once, in list order,
\* whatever fails; each panel ends either among the successes or on
\* error_panels, so the two lists together count the selected panels; and in
\* a batch of 3 existing panels in which only the capture of the second one
\* raises there are 2 successes and 1 failure and the second panel's display
\* state is what it was before its capture.
C3_BatchSurvivesFailure ==
    /\ handler = "execute" => Len(success_files) + Len(error_panels) = idx - 1
    /\ LoopDone =>
        /\ EnteredPanels = selected_panels
        /\ Len(success_files) + Len(error_panels) = Len(selected_panels)
        /\ Range(error_panels) \subseteq Range(selected_panels)
        /\ Cardinality(Range(error_panels)) = Len(error_panels)
        /\ (/\ Len(selected_panels) = 3
            /\ \A p \in Range(selected_panels) : panelInfo[p].exists
            /\ {p \in Panels : Raised(p)} = {selected_panels[2]})
           => /\ Len(success_files) = 2
              /\ error_panels = <<selected_panels[2]>>
              /\ flags[selected_panels[2]] = pre[selected_panels[2]].flags
              /\ isoState[selected_panels[2]] = pre[selected_panels[2]].iso

\* the capture returned without an exception but left no usable file
BadOutput ==
    /\ pc = "return"
    /\ exc = None
    /\ panelInfo[panel].exists
    /\ \/ final_filepath = NonePath
       \/ ~FsExists(fs, final_filepath)
       \/ fs[final_filepath] = 0

\* C4: a capture that returns without error but whose resolved file is
\* missing or empty is a failure: the batch does not count the panel among
\* the successes, the preview ends with no tracked file and no image; no
\* exception is raised.
C4_EmptyOutputIsFailure ==
    [][ /\ (handler = "execute" /\ BadOutput) => success_files' = success_files
        /\ (handler = "preview" /\ BadOutput /\ pc' = "idle") =>
               (preview_image' = <<>> /\ temp_preview_file' = NonePath) ]_vars

\* C5: when the resolved path differs from the requested one, the path handed
\* back for the capture is the resolved one: the entry put on success_files
\* in a batch, the tracked temp_preview_file in a preview.
C5_ResolvedPathReported ==
    [][ /\ (/\ handler = "execute" /\ pc = "return" /\ exc = None
            /\ final_filepath /= NonePath /\ final_filepath /= filepath
            /\ pc' = "idle")
           => success_files' = Append(success_files, final_filepath)
        /\ (/\ handler = "preview" /\ pc = "return" /\ exc = None
            /\ final_filepath /= NonePath /\ final_filepath /= filepath
            /\ FsExists(fs, final_filepath))
           => temp_preview_file = final_filepath ]_vars

\* the events that are not the existence test itself or a query made by the
\* button handler before the call
NoTouchEvents == {"camera", "ls", "panelExists"}

\* C6: for a panel that does not exist generate_snapshot raises at once:
\* after the existence test the call is over with ValueError, and nothing
\* else was asked of the host for the panel: no flag query or edit, no
\* isolate-select query or edit, no capture, no restore.
C6_MissingPanelFailsFast ==
    (pc \notin {"idle", "check"} /\ ~panelInfo[panel].exists) =>
        /\ pc = "return"
        /\ exc = "ValueError"
        /\ EventsOf(panel) \subseteq NoTouchEvents
        /\ flags[panel] = pre[panel].flags
        /\ isoState[panel] = pre[panel].iso
        /\ original_settings = NoSettings

\* generate_snapshot has raised ValueError for a missing panel
C6_Witness == pc = "return" /\ exc = "ValueError" /\ ~panelInfo[panel].exists

\* C7: with previews only, whenever no handler runs at most one preview temp
\* file exists and it is the tracked one; when a preview capture begins only
\* its own fresh temp file exists; after the end-of-session cleanup none
\* exists.
C7_OnePreviewTempFile ==
    batches = 0 =>
        /\ handler \in {"idle", "closed"} => DOMAIN fs \subseteq {temp_preview_file}
        /\ (handler = "preview" /\ pc = "check") => DOMAIN fs = {filepath}
        /\ handler = "closed" => DOMAIN fs = {}

\* C8: in viewport_all and scene_objects mode generate_snapshot never sets the
\* isolate-select state: in every state of the call it has its value from
\* before the call and no isolateSelect edit has been issued.
C8_NoIsolateWrite ==
    (pc /= "idle" /\ mode_key \in {"viewport_all", "scene_objects"}) =>
        /\ isoState[panel] = pre[panel].iso
        /\ "isolateSet" \notin EventsOf(panel)
        /\ ~isolate_activated

\* a capture in viewport_all mode has finished on a panel that supports
\* isolate-select, with objects selected and isolate-select on
C8_Witness ==
    /\ pc = "return" /\ exc = None /\ mode_key = "viewport_all"
    /\ selection /\ isolate_available /\ isoState[panel] /\ "finally" \in EventsOf(panel)

EmptySel == mode_key = "selected_only" /\ ~selection

\* the batch half of C9: no isolate-select, and the capture is issued
BatchEmptySelection ==
    (EmptySel /\ pc /= "idle") =>
        /\ ~isolate_activated
        /\ "isolateSet" \notin EventsOf(panel)
        /\ isoState[panel] = pre[panel].iso
        /\ (handler = "execute" /\ panelInfo[panel].exists
            /\ pc \in {"resolve", "restore", "return"}) => "playblast" \in EventsOf(panel)

\* C9 as stated: in selected_only mode with nothing selected, a capture
\* started from the batch button or from the preview button never turns
\* isolate-select on and still issues the capture.
C9_CaptureFromEitherEntry ==
    /\ BatchEmptySelection
    /\ (batches = 0 /\ previews > 0 /\ EmptySel /\ handler = "idle" /\ log /= <<>>) =>
           \E p \in Panels : "playblast" \in EventsOf(p)

\* C9 amended: in selected_only mode with nothing selected isolate-select is
\* never turned on from either button; a batch still issues the capture for
\* every existing selected panel, while update_preview returns before it
\* calls generate_snapshot: no capture is issued and the preview image is
\* cleared.
C9_BatchCapturesPreviewReturns ==
    /\ BatchEmptySelection
    /\ (batches = 0 /\ EmptySel) =>
           /\ handler \in {"idle", "closed"}
           /\ preview_image = <<>>
           /\ \A p \in Panels : EventsOf(p) \subseteq {"ls"}

\* a batch capture has returned in selected_only mode with nothing selected,
\* on a panel that supports isolate-select
C9_Witness ==
    /\ handler = "execute" /\ pc = "return" /\ exc = None
    /\ EmptySel /\ isolate_available /\ "playblast" \in EventsOf(panel)

\* the category flags each filter key leaves on
ExpectedEnabled(key) ==
    CASE key = "all" -> {"allObjects"}
      [] key = "mesh" -> {"polymeshes", "subdivSurfaces"}
      [] key = "joint" -> {"joints"}
      [] key = "mesh_joint" -> {"polymeshes", "subdivSurfaces", "joints"}
      [] key = "nurbs" -> {"nurbsCurves", "nurbsSurfaces"}
      [] OTHER -> {"allObjects"}

\* C10: when the capture is issued the category flags that are on are exactly
\* those of the filter key, whatever was on before.
C10_ExactFilterFlags ==
    pc = "playblast" =>
        {f \in CategoryFlags : flags[panel][f]} = ExpectedEnabled(filter_key)

\* the capture is about to be issued with filter mesh_joint on a panel that
\* had nCloths on and polymeshes off
C10_Witness ==
    /\ pc = "playblast" /\ filter_key = "mesh_joint"
    /\ pre[panel].flags["nCloths"] /\ ~pre[panel].flags["polymeshes"]

\* the path the return value of the capture command stands for
ReturnedPath(raw, requested) ==
    CASE raw.kind = "list" /\ Len(raw.val) > 0 -> raw.val[1]
      [] raw.kind = "str" /\ Len(raw.val[1]) > 0 -> raw.val[1]
      [] OTHER -> requested

\* a frame number written with at least four digits, zeros in front
FourDigits(n) ==
    LET digits == NatStr(IF n < 0 THEN -n ELSE n) IN
    (IF n < 0 THEN <<"-">> ELSE <<>>) \o Zeros(4 - Len(digits)) \o digits

ResolvesAsClaimed ==
    pc = "resolve" =>
        final_filepath' = Replace(ReturnedPath(actual_filepath_raw, filepath),
                                  PLACEHOLDER, FourDigits(frame))

\* C11: the resolved path is the first element of a non-empty list, a
\* non-empty string itself, otherwise the requested path, with every "####" in
\* it replaced by the current frame number zero-padded to 4 digits: so
\* "shot.####.jpg" at frame 7 gives "shot.0007.jpg", and a path without "####"
\* is left as it is.
C11_PathResolution == [][ResolvesAsClaimed]_vars

\* the same for the frames that are not negative
C11_FromFrameZero == [][frame >= 0 => ResolvesAsClaimed]_vars

\* the example of the claim: "shot.####.jpg" at frame 7
C11_Example ==
    [][(pc = "resolve" /\ frame = 7 /\ actual_filepath_raw = StrRaw(ShotPath)) =>
          final_filepath' = <<"s", "h", "o", "t", ".", "0", "0", "0", "7">>
                            \o default_extension]_vars

\* the capture command is about to be called, or has been called, in the
\* running call of generate_snapshot
CaptureIssued == pc = "playblast" \/ (pc /= "idle" /\ "playblast" \in EventsOf(panel))

\* C12: the showOrnaments value handed to the capture command follows from
\* the display mode alone: true for viewport_all, false for scene_objects and
\* selected_only, whatever the filter key, the selection and the panel's
\* isolate-select support are.
C12_OrnamentsByMode ==
    CaptureIssued => (show_ornaments <=> mode_key = "viewport_all")

\* a capture is about to be issued in selected_only mode with isolate-select
\* turned on for it, filter joint, ornaments hidden
C12_Witness ==
    /\ pc = "playblast" /\ mode_key = "selected_only" /\ filter_key = "joint"
    /\ selection /\ isolate_activated /\ ~show_ornaments

IsPanelCall(e) == e[1] /= "ls"

\* the log entries that ask something of a panel (the rest read the
\* selection), in order
PanelCalls == SelectSeq(log, IsPanelCall)

\* the step of the sequence the i-th panel call belongs to: 0 the file name,
\* 1 the existence test, 2 save, 3 mutate, 4 capture, 5 restore (the finally
\* block, its flag edit and the isolate-select calls that follow it)
StepOf(calls, i) ==
    LET e == calls[i][1] IN
    CASE e \in {"finally", "restoreFlags"} -> 5
      [] /\ e \in {"isolateQuery", "isolateSet"}
         /\ \E k \in 1..(i - 1) : calls[k] = <<"finally", calls[i][2]>> -> 5
      [] e = "camera" -> 0
      [] e = "panelExists" -> 1
      [] e \in {"isolateProbe", "getFlags", "isolateQuery"} -> 2
      [] e \in {"isolateSet", "setFlags"} -> 3
      [] OTHER -> 4

\* panel p has been restored, or was never saved or mutated
Closed(p) == "finally" \in EventsOf(p) \/ EventsOf(p) \subseteq NoTouchEvents

\* panel p has been mutated and not yet restored
InMutatedState(p) ==
    /\ {"isolateSet", "setFlags"} \cap EventsOf(p) /= {}
    /\ "finally" \notin EventsOf(p)

\* C13: the calls are strictly sequential.  For each panel they come in the
\* order save, mutate, capture (which returns or raises), restore, none of
\* them missing once the capture is issued; in a batch the calls for a panel
\* are not interrupted by calls for another one, and the first call for the
\* next panel comes when the panel before it has been restored; so at most
\* one panel, the one generate_snapshot is running for, is between its
\* mutation and its restore.
C13_StrictlySequential ==
    /\ LET calls == PanelCalls IN
       \A i \in 1..(Len(calls) - 1) :
          IF calls[i][2] = calls[i + 1][2]
          THEN StepOf(calls, i) <= StepOf(calls, i + 1)
          ELSE /\ Closed(calls[i][2])
               /\ \A k \in 1..i : calls[k][2] /= calls[i + 1][2]
    /\ \A p \in Panels :
          /\ "playblast" \in EventsOf(p) => {"getFlags", "setFlags"} \subseteq EventsOf(p)
          /\ "finally" \in EventsOf(p) => "playblast" \in EventsOf(p)
          /\ InMutatedState(p) =>
                (p = panel /\ pc \in {"disable", "enable", "playblast", "resolve", "restore"})
    /\ (pc = "return" /\ panelInfo[panel].exists) => "finally" \in EventsOf(panel)
    /\ Cardinality({p \in Panels : InMutatedState(p)}) <= 1

\* a batch of three existing panels is over, each was captured, and the
\* capture of the second one raised
C13_Witness ==
    /\ LoopDone /\ Len(selected_panels) = 3
    /\ \A p \in Panels : "playblast" \in EventsOf(p) /\ "finally" \in EventsOf(p)
    /\ Raised(selected_panels[2]) /\ ~Raised(selected_panels[3])

\* a configuration error: no folder, no base name, a width or height that is
\* not greater than 0, or no panel checked
ConfigError(folder, base, w, h, sel) ==
    folder = <<>> \/ base = <<>> \/ w <= 0 \/ h <= 0 \/ sel = <<>>

\* C14: when the snapshot button is pressed with a configuration error the
\* handler returns before any effect: no host call is made (no display flag
\* or isolate-select state of any panel is read or written, no capture is
\* issued), the display state and the files are what they were, and the
\* success and error lists are empty.
C14_ConfigErrorAborts ==
    [][ (/\ handler = "idle"
         /\ batches' /= batches
         /\ ConfigError(folder_path', filename_base', width', height', selected_panels'))
        => /\ handler' = "idle"
           /\ pc' = "idle"
           /\ log' = <<>>
           /\ flags' = flags
           /\ isoState' = isoState
           /\ fs' = fs
           /\ success_files' = <<>>
           /\ error_panels' = <<>> ]_vars

\* the snapshot button was pressed with folder, base name and panels given
\* but a width of 0, and the handler has returned
C14_Witness ==
    /\ batches > 0 /\ handler = "idle" /\ pc = "idle"
    /\ folder_path /= <<>> /\ filename_base /= <<>> /\ selected_panels /= <<>>
    /\ width <= 0 /\ height > 0
    /\ log = <<>> /\ success_files = <<>> /\ error_panels = <<>>

\* C15: the mutation writes category flags only: when the capture is issued
\* the ornament flags (grid, hud, manipulators) and the shading flags of the
\* panel have the values they had before the call, for every mode and filter;
\* in viewport_all mode no ornament flag has been turned off.
C15_OnlyCategoryFlagsWritten ==
    pc = "playblast" =>
        \A f \in OrnamentFlags \cup ShadingFlags : flags[panel][f] = pre[panel].flags[f]

\* the same without the manipulators flag
C15_ExceptManipulators ==
    pc = "playblast" =>
        \A f \in (OrnamentFlags \cup ShadingFlags) \ {"manipulators"} :
            flags[panel][f] = pre[panel].flags[f]

\* C16: in a batch no two selected panels get the same output path, also when
\* they show the same camera: the paths on success_files are pairwise
\* different, and the path of the running capture is none of those already
\* on success_files, so no recorded file is overwritten by a later capture.
C16_DistinctOutputPaths ==
    handler = "execute" =>
        /\ \A i, j \in 1..Len(success_files) : i < j => success_files[i] /= success_files[j]
        /\ pc /= "idle" => filepath \notin Range(success_files)

\* the same for batches whose panels have pairwise different file name
\* suffixes
C16_DistinctSuffixes ==
    (\A p, q \in Range(selected_panels) :
        p /= q => FilenameSuffix(panelInfo[p], p) /= FilenameSuffix(panelInfo[q], q))
    => C16_DistinctOutputPaths

\* the flags the mutation step can write
WritableFlags ==
    DOMAIN settings_to_disable \cup UNION {DOMAIN settings_to_enable(k) : k \in FilterKeys}

\* generate_snapshot is between the save and the end of the call
AfterSave == pc \in {"mode", "disable", "enable", "playblast", "resolve", "restore", "return"}

\* C17: every flag the mutation step can write is one of the flags the guard
\* queries, and during a call no other flag of the panel changes; the
\* snapshot taken before the mutation stays what the save made of the
\* pre-call state until the call is over: an entry for every flag whose query
\* answered, holding the pre-call value or None.
C17_MutationWithinSnapshot ==
    /\ WritableFlags \subseteq Flags
    /\ pc /= "idle" =>
          \A f \in Flags :
              flags[panel][f] /= pre[panel].flags[f] => f \in WritableFlags
    /\ (AfterSave /\ panelInfo[panel].exists) =>
          /\ DOMAIN original_settings = Flags \ panelInfo[panel].unreadable
          /\ \A f \in DOMAIN original_settings :
                original_settings[f] = IF f \in panelInfo[panel].noneq THEN <<>>
                                       ELSE <<pre[panel].flags[f]>>

\* the capture has returned on a panel with flags that cannot be queried,
\* its flags are still mutated and the restore is about to run
C17_Witness ==
    /\ pc = "restore" /\ exc = None
    /\ panelInfo[panel].unreadable /= {} /\ original_settings /= NoSettings
    /\ flags[panel] /= pre[panel].flags

====
